---- MODULE Spec2Model ----
(***************************************************************************)
(* Model of the ICT trading bot's signal engine (src/signal_engine.py) and *)
(* of the polling cycle that calls it (src/main.py).                       *)
(*                                                                         *)
(* Time is counted in minutes.  A wall-clock reading is a time of day in   *)
(* 0 .. MinutesPerDay-1; candle timestamps are minutes on one axis.  The   *)
(* code compares datetime.time values at microsecond resolution with <=,   *)
(* so every window bound is itself a reading inside the window and the     *)
(* next representable reading is outside: the minute grid keeps exactly    *)
(* that shape (bound inside, bound + 1 outside).                           *)
(*                                                                         *)
(* A DataFrame is abstracted to the facts generate_signal reads from it:   *)
(* what validate_dataframe tests, its length, its last timestamp, last     *)
(* close and last ATR, and the event lists the five detectors return on    *)
(* it (or the fact that a detector raises on it).                          *)
(***************************************************************************)
EXTENDS Integers, Sequences, FiniteSets, TLC

VARIABLES clock, tz, pc, df, now1, now2, res, arg, out

vars == <<clock, tz, pc, df, now1, now2, res, arg, out>>

-----------------------------------------------------------------------------
(* Program constants *)

LondonStart == 120
LondonEnd == 300
NewYorkStart == 510
NewYorkEnd == 690
MinRequiredCandles == 50
AtrPeriod == 14
MinConfluences == 3
FvgMaxAgeHours == 4
ObMaxAgeHours == 4
BosMaxAgeHours == 2
ChochMaxAgeHours == 2
AtrMultiple == 2

(* Bounds of the model *)

MaxEvents == 4
MaxElapsed == 1

MinutesPerDay == 24 * 60

(* Floating point: a float is NaN or a number; prices are whole numbers of *)
(* 10^-5, the precision round(x, 5) keeps.  NaN propagates through + and -. *)
NaN == [nan |-> TRUE, v |-> 0]
Num(n) == [nan |-> FALSE, v |-> n]
IsNaN(x) == x.nan
FSub(a, b) == IF IsNaN(a) \/ IsNaN(b) THEN NaN ELSE Num(a.v - b.v)
FAdd(a, b) == IF IsNaN(a) \/ IsNaN(b) THEN NaN ELSE Num(a.v + b.v)
FMul(a, k) == IF IsNaN(a) THEN NaN ELSE Num(a.v * k)

-----------------------------------------------------------------------------
(* Session gate *)

\* is_in_kill_zone as one window from the London start to the New York end.
is_in_kill_zone_span(t) == LondonStart <= t /\ t <= NewYorkEnd

\* is_in_kill_zone with the upper comparisons strict (half-open windows).
is_in_kill_zone_halfopen(t) ==
    \/ (LondonStart <= t /\ t < LondonEnd)
    \/ (NewYorkStart <= t /\ t < NewYorkEnd)

\* is_in_kill_zone(check_time): check_time.time() against the two windows.
is_in_kill_zone(t) ==
    \/ (LondonStart <= t /\ t <= LondonEnd)
    \/ (NewYorkStart <= t /\ t <= NewYorkEnd)

\* datetime.now(EST_TZ): the reading of the US/Eastern wall clock.
NowEastern(c) == c % MinutesPerDay

\* datetime.now(): the naive reading of the host's local wall clock.
NowLocal(c, offset) == (c + offset) % MinutesPerDay

-----------------------------------------------------------------------------
(* Candle series and the events detected on them *)

Types == {"bullish", "bearish"}
Detectors == <<"liquidity_pools", "fvg", "order_blocks", "bos", "choch">>
DetectorNames == {Detectors[i] : i \in 1..Len(Detectors)}

\* df.index[-1] of every series of the model; event times are placed around
\* the two recency limits below it.
LastTime == 60 * 24

\* Event times per detector: on the limit and one minute past it.
EventTimes(k) ==
    CASE k = "fvg"          -> {LastTime - 60 * FvgMaxAgeHours, LastTime - 60 * FvgMaxAgeHours - 1}
      [] k = "order_blocks" -> {LastTime - 60 * ObMaxAgeHours, LastTime - 60 * ObMaxAgeHours - 1}
      [] k = "bos"          -> {LastTime - 60 * BosMaxAgeHours, LastTime - 60 * BosMaxAgeHours - 1}
      [] k = "choch"        -> {LastTime - 60 * ChochMaxAgeHours, LastTime - 60 * ChochMaxAgeHours - 1}
      [] OTHER              -> {LastTime - 60}

EventTypes(k) == IF k = "liquidity_pools" THEN {"sell-side"} ELSE Types

\* One detected event: the detector, its type, and the timestamp the
\* aggregator reads (end_time of an FVG, time of the others).
Alphabet ==
    UNION {[kind : {k}, type : EventTypes(k), time : EventTimes(k)] : k \in DetectorNames}

\* detect_order_blocks and detect_choch append at most one event per index
\* (if / elif), so no two of their events share a timestamp.
OnePerIndex(S) ==
    \A a, b \in S :
        (a.kind = b.kind /\ a.kind \in {"order_blocks", "choch"} /\ a.time = b.time) => a = b

EventSets == {S \in SUBSET Alphabet : Cardinality(S) <= MaxEvents /\ OnePerIndex(S)}

\* The detectors scan the candles in index order and test bullish first.
EventKey(e) == 2 * e.time + (IF e.type = "bullish" THEN 0 ELSE 1)

RECURSIVE InScanOrder(_)
InScanOrder(S) ==
    IF S = {} THEN << >>
    ELSE LET first == CHOOSE e \in S : \A o \in S : EventKey(e) <= EventKey(o)
         IN  <<first>> \o InScanOrder(S \ {first})

OfKind(S, k) == InScanOrder({e \in S : e.kind = k})

Patterns(S) == [k \in DetectorNames |-> OfKind(S, k)]

NoPatterns == [k \in DetectorNames |-> << >>]

\* Three recent bullish events and a pool: enough for a signal if counted.
StrongEvents ==
    { [kind |-> "fvg", type |-> "bullish", time |-> LastTime - 60 * FvgMaxAgeHours],
      [kind |-> "order_blocks", type |-> "bullish", time |-> LastTime - 60 * ObMaxAgeHours],
      [kind |-> "bos", type |-> "bullish", time |-> LastTime - 60 * BosMaxAgeHours],
      [kind |-> "liquidity_pools", type |-> "sell-side", time |-> LastTime - 60] }

ClosePrice == 100 * 1000
AtrValues == {0, 2 * 100}

\* One day of 5-minute candles, the series process_signals asks for.
DayOfCandles == 24 * 12

Frame(isdf, n, cols, nans, dtidx, close, atr, S, failing) ==
    [isDataFrame |-> isdf, len |-> n, hasColumns |-> cols, hasNaN |-> nans,
     isDatetimeIndex |-> dtidx, last |-> LastTime, close |-> close, atr |-> atr,
     patterns |-> Patterns(S), failing |-> failing]

\* Several recent events of one kind and one direction, five minutes (one
\* candle) apart: three bullish FVGs, two bearish BOS.
RepeatEventSets ==
    SUBSET ({[kind |-> "fvg", type |-> "bullish", time |-> LastTime - 60 * FvgMaxAgeHours + 5 * k] :
                 k \in 0..2}
            \cup {[kind |-> "bos", type |-> "bearish", time |-> LastTime - 60 * BosMaxAgeHours + 5 * k] :
                 k \in 0..1})

\* Well-formed series long enough for every detector.
RichFrames ==
    {Frame(TRUE, DayOfCandles, TRUE, FALSE, TRUE, Num(ClosePrice), Num(a), S, {}) :
        a \in AtrValues, S \in EventSets \cup RepeatEventSets}

\* Well-formed series on which one detector raises.
FailingFrames ==
    {Frame(TRUE, DayOfCandles, TRUE, FALSE, TRUE, Num(ClosePrice), Num(2 * 100), StrongEvents, {k}) :
        k \in DetectorNames}

\* Well-formed but short series; rolling(14).mean() is NaN before 14 rows.
ShortLens == {3, AtrPeriod - 1, AtrPeriod, MinRequiredCandles - 1, MinRequiredCandles}

ShortFrames ==
    {Frame(TRUE, n, TRUE, FALSE, TRUE, Num(ClosePrice),
           IF n < AtrPeriod THEN NaN ELSE Num(2 * 100),
           IF n < AtrPeriod THEN {} ELSE StrongEvents, {}) : n \in ShortLens}

\* Series that validate_dataframe rejects, one defect each.
MalformedFrames ==
    { Frame(TRUE, DayOfCandles, FALSE, FALSE, TRUE, Num(ClosePrice), Num(2 * 100), StrongEvents, {}),
      Frame(TRUE, DayOfCandles, TRUE, TRUE, TRUE, NaN, NaN, StrongEvents, {}),
      Frame(TRUE, DayOfCandles, TRUE, TRUE, TRUE, Num(ClosePrice), Num(2 * 100), StrongEvents, {}),
      Frame(TRUE, DayOfCandles, TRUE, FALSE, FALSE, Num(ClosePrice), Num(2 * 100), StrongEvents, {}) }

EmptyFrame == Frame(TRUE, 0, TRUE, FALSE, TRUE, NaN, NaN, {}, {})
NotAFrame == Frame(FALSE, 0, FALSE, FALSE, FALSE, NaN, NaN, {}, {})

\* Every argument a caller may pass as df.
Frames == RichFrames \cup FailingFrames \cup ShortFrames \cup MalformedFrames
              \cup {EmptyFrame, NotAFrame}

\* What market_data.validate_data lets through to process_signals.
ValidatedFrames == {f \in RichFrames \cup FailingFrames : f.len >= MinRequiredCandles}

-----------------------------------------------------------------------------
(* The engine: src/signal_engine.py *)

\* A call either returns a value or raises.
Ok(v) == [ok |-> TRUE, val |-> v]
Raises == [ok |-> FALSE, val |-> << >>]

\* validate_dataframe without the test for missing values.
validate_dataframe_nonan(d) ==
    IF ~d.hasColumns THEN Raises
    ELSE IF ~d.isDatetimeIndex THEN Raises
    ELSE Ok(d)

validate_dataframe(d) ==
    IF ~d.hasColumns THEN Raises
    ELSE IF d.hasNaN THEN Raises
    ELSE IF ~d.isDatetimeIndex THEN Raises
    ELSE Ok(d)

\* The detectors, each by what it returns on the series.
detect_liquidity_pools(d) ==
    IF "liquidity_pools" \in d.failing THEN Raises ELSE Ok(d.patterns.liquidity_pools)
detect_fvg(d) ==
    IF "fvg" \in d.failing THEN Raises ELSE Ok(d.patterns.fvg)
detect_order_blocks(d) ==
    IF "order_blocks" \in d.failing THEN Raises ELSE Ok(d.patterns.order_blocks)
detect_bos(d) ==
    IF "bos" \in d.failing THEN Raises ELSE Ok(d.patterns.bos)
detect_choch(d) ==
    IF "choch" \in d.failing THEN Raises ELSE Ok(d.patterns.choch)

\* calculate_atr(df).iloc[-1]
AtrLast(d) == d.atr

\* analyze_candles keeping whatever the detectors before the failing one returned.
analyze_candles_partial(d) ==
    IF ~validate_dataframe(d).ok \/ d.len < MinRequiredCandles THEN NoPatterns
    ELSE [liquidity_pools |-> IF detect_liquidity_pools(d).ok THEN detect_liquidity_pools(d).val ELSE << >>,
          fvg |-> IF detect_fvg(d).ok THEN detect_fvg(d).val ELSE << >>,
          order_blocks |-> IF detect_order_blocks(d).ok THEN detect_order_blocks(d).val ELSE << >>,
          bos |-> IF detect_bos(d).ok THEN detect_bos(d).val ELSE << >>,
          choch |-> IF detect_choch(d).ok THEN detect_choch(d).val ELSE << >>]

\* One try around validation, the length test and the five detectors; the
\* except branch returns five empty lists.
analyze_candles(d) ==
    IF ~validate_dataframe(d).ok THEN NoPatterns
    ELSE IF d.len < MinRequiredCandles THEN NoPatterns
    ELSE IF ~detect_liquidity_pools(d).ok THEN NoPatterns
    ELSE IF ~detect_fvg(d).ok THEN NoPatterns
    ELSE IF ~detect_order_blocks(d).ok THEN NoPatterns
    ELSE IF ~detect_bos(d).ok THEN NoPatterns
    ELSE IF ~detect_choch(d).ok THEN NoPatterns
    ELSE [liquidity_pools |-> detect_liquidity_pools(d).val,
          fvg |-> detect_fvg(d).val,
          order_blocks |-> detect_order_blocks(d).val,
          bos |-> detect_bos(d).val,
          choch |-> detect_choch(d).val]

\* (df.index[-1] - t).total_seconds() / 3600 <= hours
IsRecent(d, t, hours) == (d.last - t) * 60 <= hours * 3600

\* The 2-hour limit applied to every kind.
RecentEvents_all2h(d, ict) ==
    [fvg |-> SelectSeq(ict.fvg, LAMBDA e : IsRecent(d, e.time, BosMaxAgeHours)),
     order_blocks |-> SelectSeq(ict.order_blocks, LAMBDA e : IsRecent(d, e.time, BosMaxAgeHours)),
     bos |-> SelectSeq(ict.bos, LAMBDA e : IsRecent(d, e.time, BosMaxAgeHours)),
     choch |-> SelectSeq(ict.choch, LAMBDA e : IsRecent(d, e.time, ChochMaxAgeHours))]

\* recent_fvgs, recent_obs, recent_bos, recent_choch
RecentEvents(d, ict) ==
    [fvg |-> SelectSeq(ict.fvg, LAMBDA e : IsRecent(d, e.time, FvgMaxAgeHours)),
     order_blocks |-> SelectSeq(ict.order_blocks, LAMBDA e : IsRecent(d, e.time, ObMaxAgeHours)),
     bos |-> SelectSeq(ict.bos, LAMBDA e : IsRecent(d, e.time, BosMaxAgeHours)),
     choch |-> SelectSeq(ict.choch, LAMBDA e : IsRecent(d, e.time, ChochMaxAgeHours))]

\* f"FVG_{type}" and the like, as the pair of its two parts.
TagsOf(prefix, events) == [i \in 1..Len(events) |-> <<prefix, events[i].type>>]

NumBullish(events) == Cardinality({i \in 1..Len(events) : events[i].type = "bullish"})

\* The four counting loops: bullish_count, bearish_count, confluences.
Tally(d, ict) ==
    LET r == RecentEvents(d, ict)
        all == r.fvg \o r.order_blocks \o r.bos \o r.choch
    IN  [bullish_count |-> NumBullish(all),
         bearish_count |-> Len(all) - NumBullish(all),
         confluences |-> TagsOf("FVG", r.fvg) \o TagsOf("OB", r.order_blocks)
                           \o TagsOf("BOS", r.bos) \o TagsOf("CHoCH", r.choch)]

NoTally == [bullish_count |-> 0, bearish_count |-> 0, confluences |-> << >>]

\* The threshold test on the number of distinct tags.
EnoughConfluences_distinct(t) ==
    Cardinality({t.confluences[i] : i \in 1..Len(t.confluences)}) >= MinConfluences

\* The threshold test with > in place of >=.
EnoughConfluences_strict(t) == Len(t.confluences) > MinConfluences

\* len(confluences) >= min_confluences
EnoughConfluences(t) == Len(t.confluences) >= MinConfluences

\* Direction with ties going to BUY.
Direction_tieBuy(t) == IF t.bullish_count >= t.bearish_count THEN "BUY" ELSE "SELL"

\* direction = "BUY" if bullish_count > bearish_count else "SELL"
Direction(t) == IF t.bullish_count > t.bearish_count THEN "BUY" ELSE "SELL"

\* calculate_risk_params with the SELL branch on the BUY side of the entry.
calculate_risk_params_sameside(d, direction, entry) ==
    LET risk == FMul(AtrLast(d), AtrMultiple)
        reward == IF IsNaN(risk) THEN NaN ELSE Num((risk.v * 3) \div 2)
    IN  [stop_loss |-> FSub(entry, risk), take_profit |-> FAdd(entry, reward)]

\* atr * atr_multiple and atr * atr_multiple * 1.5 away from the entry.
calculate_risk_params(d, direction, entry) ==
    LET atr == AtrLast(d)
        risk == FMul(atr, AtrMultiple)
        reward == IF IsNaN(risk) THEN NaN ELSE Num((risk.v * 3) \div 2)
    IN  IF direction = "BUY"
        THEN [stop_loss |-> FSub(entry, risk), take_profit |-> FAdd(entry, reward)]
        ELSE [stop_loss |-> FAdd(entry, risk), take_profit |-> FSub(entry, reward)]

\* The label taken from the reading that passed the gate.
KillZoneType_gate(gate_now, label_now) ==
    IF LondonStart <= gate_now /\ gate_now <= LondonEnd THEN "London" ELSE "New York"

\* kill_zone_type, from the clock as read at assembly.
KillZoneType(gate_now, label_now) ==
    IF LondonStart <= label_now /\ label_now <= LondonEnd THEN "London" ELSE "New York"

Abs(x) == IF x < 0 THEN 0 - x ELSE x
Max(a, b) == IF a >= b THEN a ELSE b
Min(a, b) == IF a <= b THEN a ELSE b

\* min(1.0, abs(entry - stop_loss) / entry * 100) printed with one decimal:
\* the value in tenths of a percent, rounded to the nearest.
RiskTenths(entry, stop_loss) ==
    Min(10, (2 * 1000 * Abs(entry - stop_loss) + entry) \div (2 * entry))

NoSignal == [asset |-> "", direction |-> "", entry |-> 0, stop_loss |-> 0,
             take_profit |-> 0, kill_zone |-> "", setup |-> {}, risk |-> 0,
             confidence |-> <<0, 0>>]

Range(seq) == {seq[i] : i \in 1..Len(seq)}

\* What one evaluation leaves behind: the caller-visible outcome ("signal",
\* "none", or "raise" when an exception escapes), the returned record, the
\* logger.error it made, and the locals at the point of return.
Outcome(kind, stage, log, signal, ict, t) ==
    [outcome |-> kind, stage |-> stage, log |-> log, signal |-> signal,
     ict |-> ict, tally |-> t]

\* The body of the outer try of generate_signal.
GenerateSignalBody(asset, d, gate_now, label_now) ==
    IF ~d.isDataFrame THEN Outcome("raise", "type", "", NoSignal, NoPatterns, NoTally)
    ELSE IF d.len = 0 THEN Outcome("raise", "empty", "", NoSignal, NoPatterns, NoTally)
    ELSE IF ~is_in_kill_zone(gate_now) THEN Outcome("none", "gate", "", NoSignal, NoPatterns, NoTally)
    ELSE IF ~validate_dataframe(d).ok
         THEN Outcome("raise", "validate", "", NoSignal, NoPatterns, NoTally)
    ELSE LET ict == analyze_candles(d)
             current_price == d.close
             atr == AtrLast(d)
         IN  IF IsNaN(current_price) THEN Outcome("raise", "price", "", NoSignal, ict, NoTally)
             ELSE IF IsNaN(atr) THEN Outcome("raise", "atr", "", NoSignal, ict, NoTally)
             ELSE LET t == Tally(d, ict) IN
                  IF EnoughConfluences(t)
                  THEN LET direction == Direction(t)
                           entry == current_price
                           rp == calculate_risk_params(d, direction, entry)
                       IN  IF IsNaN(rp.stop_loss) \/ IsNaN(rp.take_profit)
                           THEN Outcome("none", "risk", "risk", NoSignal, ict, t)
                           ELSE Outcome("signal", "emit", "",
                                    [asset |-> asset, direction |-> direction,
                                     entry |-> entry.v, stop_loss |-> rp.stop_loss.v,
                                     take_profit |-> rp.take_profit.v,
                                     kill_zone |-> KillZoneType(gate_now, label_now),
                                     setup |-> Range(t.confluences),
                                     risk |-> RiskTenths(entry.v, rp.stop_loss.v),
                                     confidence |-> <<Max(t.bullish_count, t.bearish_count),
                                                      Len(t.confluences)>>],
                                    ict, t)
                  ELSE Outcome("none", "threshold", "", NoSignal, ict, t)

\* generate_signal without the outer except: the exception reaches the caller.
generate_signal_uncaught(asset, d, gate_now, label_now) == GenerateSignalBody(asset, d, gate_now, label_now)

\* generate_signal: the outer `except Exception` logs and returns None.
generate_signal(asset, d, gate_now, label_now) ==
    LET r == GenerateSignalBody(asset, d, gate_now, label_now)
    IN  IF r.outcome = "raise"
        THEN [r EXCEPT !.outcome = "none", !.log = "generating"]
        ELSE r

-----------------------------------------------------------------------------
(* The polling cycle of src/main.py around the engine *)

\* Wall-clock readings (US/Eastern) at which a cycle may start: around every
\* bound of the two windows, midnight and mid-afternoon.
TimesOfDay ==
    {0, LondonStart - 1, LondonStart, LondonEnd - 1, LondonEnd,
     NewYorkStart - 1, NewYorkStart, NewYorkEnd, 14 * 60}

\* Host local time minus US/Eastern time: a host on US/Eastern, a host on UTC.
HostOffsets == {0, 5 * 60}

Asset == "EUR/USD"

NoFrame == NotAFrame
NoResult == Outcome("none", "idle", "", NoSignal, NoPatterns, NoTally)

\* arg and out hold the argument and the result of a function called on its
\* own; the polling cycle leaves them alone.
NoArg == << >>

Init ==
    /\ clock \in TimesOfDay
    /\ tz \in HostOffsets
    /\ pc = "idle"
    /\ df = NoFrame
    /\ now1 = 0
    /\ now2 = 0
    /\ res = NoResult
    /\ arg = NoArg
    /\ out = NoArg

\* run: time.sleep between two cycles.
Tick ==
    /\ pc = "idle"
    /\ \E t \in TimesOfDay \ {clock} : clock' = t
    /\ UNCHANGED <<tz, pc, df, now1, now2, res>>

\* process_signals up to its session gate, on datetime.now(EST_TZ).
ProcessSignals ==
    /\ pc = "idle"
    /\ pc' = IF is_in_kill_zone(NowEastern(clock)) THEN "cycle" ELSE "idle"
    /\ UNCHANGED <<clock, tz, df, now1, now2, res>>

\* get_market_data: a validated series, or None and the asset is skipped.
GetMarketData ==
    /\ pc = "cycle"
    /\ \/ \E f \in ValidatedFrames, d \in 0..MaxElapsed :
            /\ df' = f
            /\ clock' = (clock + d) % MinutesPerDay
            /\ pc' = "called"
       \/ /\ pc' = "idle"
          /\ \E t \in TimesOfDay : clock' = t
          /\ UNCHANGED df
    /\ UNCHANGED <<tz, now1, now2, res>>

\* Any other caller of generate_signal, such as backtest_signal_logic: df is
\* whatever it passes.
CallDirect ==
    /\ pc = "idle"
    /\ \E f \in Frames : df' = f
    /\ pc' = "called"
    /\ UNCHANGED <<clock, tz, now1, now2, res>>

\* generate_signal(asset, df): datetime.now() is read at the gate and again
\* when the record is assembled, up to MaxElapsed minutes later.
GenerateSignal ==
    /\ pc = "called"
    /\ \E d \in 0..MaxElapsed :
        /\ now1' = NowLocal(clock, tz)
        /\ now2' = NowLocal(clock + d, tz)
        /\ clock' = (clock + d) % MinutesPerDay
        /\ res' = generate_signal(Asset, df, now1', now2')
    /\ pc' = "returned"
    /\ UNCHANGED <<tz, df>>

\* The caller takes the result and sleeps until its next cycle.
Return ==
    /\ pc = "returned"
    /\ pc' = "idle"
    /\ df' = NoFrame
    /\ now1' = 0
    /\ now2' = 0
    /\ res' = NoResult
    /\ \E t \in TimesOfDay : clock' = t
    /\ UNCHANGED tz

Next ==
    /\ Tick \/ ProcessSignals \/ GetMarketData \/ CallDirect \/ GenerateSignal \/ Return
    /\ UNCHANGED <<arg, out>>

Spec == Init /\ [][Next]_vars

TypeOK ==
    /\ clock \in 0..(MinutesPerDay - 1)
    /\ tz \in HostOffsets
    /\ pc \in {"idle", "cycle", "called", "returned"}
    /\ res.outcome \in {"signal", "none", "raise"}

-----------------------------------------------------------------------------
(* Properties *)

\* The last call of generate_signal has returned / reached its session gate /
\* passed it / reached the end of the four counting loops.
Returned == pc = "returned"
GateEvaluated == Returned /\ res.stage \notin {"type", "empty"}
GatePassed == GateEvaluated /\ res.stage # "gate"
Counted == Returned /\ res.stage \in {"threshold", "risk", "emit"}

\* 02:00-05:00 and 08:30-11:30, both ends included / upper ends excluded.
InClosedWindows(t) ==
    \/ (2 * 60 <= t /\ t <= 5 * 60)
    \/ (8 * 60 + 30 <= t /\ t <= 11 * 60 + 30)
InHalfOpenWindows(t) ==
    \/ (2 * 60 <= t /\ t < 5 * 60)
    \/ (8 * 60 + 30 <= t /\ t < 11 * 60 + 30)

\* The series passes validate_dataframe.
ValidSeries(d) == d.isDataFrame /\ d.hasColumns /\ ~d.hasNaN /\ d.isDatetimeIndex

\* The events of the lists ict that are recent by the stated rule: FVG and
\* order blocks at most 4 hours before the last candle, BOS and CHoCH at
\* most 2 hours; pools never.
RecentByRule(d, ict) ==
    {e \in Range(ict.fvg) \cup Range(ict.order_blocks) : d.last - e.time <= 4 * 60}
        \cup {e \in Range(ict.bos) \cup Range(ict.choch) : d.last - e.time <= 2 * 60}

NumTagged(tags, tag) == Cardinality({i \in 1..Len(tags) : tags[i] = tag})

\* C1: whenever the wall-clock reading of the evaluation lies outside both
\* kill zones (02:00-05:00 and 08:30-11:30 as the gate tests them, ends
\* included), generate_signal returns None, whatever the detectors would find.
C1_OutsideKillZonesNone ==
    (Returned /\ ~InClosedWindows(now1)) => (res.outcome = "none" /\ res.signal = NoSignal)

\* A well-formed series with three or more recent events, evaluated outside
\* the windows.
C1_Witness ==
    /\ Returned
    /\ ~InClosedWindows(now1)
    /\ ValidSeries(df) /\ df.len >= 50 /\ df.failing = {}
    /\ Cardinality(RecentByRule(df, df.patterns)) >= 3
    /\ res.outcome = "none"

\* C2: for a valid series of at least 50 candles evaluated inside a kill
\* zone, no signal is returned when the raw count of recent events is 2 or
\* less, and a signal is returned whenever that count is exactly 3.
C2_ThresholdAtThree ==
    (GatePassed /\ ValidSeries(df) /\ df.len >= 50) =>
        LET n == Cardinality(RecentByRule(df, res.ict))
        IN  /\ (n <= 2 => res.outcome = "none")
            /\ (n = 3 => res.outcome = "signal")

\* Exactly three recent events on a series of exactly 50 candles give a signal.
C2_Witness ==
    /\ GatePassed
    /\ ValidSeries(df) /\ df.len = 50
    /\ Cardinality(RecentByRule(df, res.ict)) = 3
    /\ res.outcome = "signal"

\* C3: every emitted signal is BUY exactly when the bullish event count is
\* strictly greater than the bearish one, and SELL otherwise; equal counts
\* give SELL.
C3_DirectionByMajority ==
    res.outcome = "signal" =>
        LET bull == Cardinality({e \in RecentByRule(df, res.ict) : e.type = "bullish"})
            bear == Cardinality({e \in RecentByRule(df, res.ict) : e.type = "bearish"})
        IN  /\ (res.signal.direction = "BUY" <=> bull > bear)
            /\ (res.signal.direction = "SELL" <=> bull <= bear)

\* A signal emitted on a tie: two bullish and two bearish recent events.
C3_Witness ==
    /\ res.outcome = "signal"
    /\ Cardinality({e \in RecentByRule(df, res.ict) : e.type = "bullish"}) = 2
    /\ Cardinality({e \in RecentByRule(df, res.ict) : e.type = "bearish"}) = 2
    /\ res.signal.direction = "SELL"

\* C4: whenever generate_signal returns a signal, its kill_zone names the
\* window that contains the reading on which the gate passed, even when the
\* clock advances between the gate and the assembly of the record.
C4_LabelNamesGateWindow ==
    res.outcome = "signal" =>
        res.signal.kill_zone =
            (IF 2 * 60 <= now1 /\ now1 <= 5 * 60 THEN "London" ELSE "New York")

\* C5 as stated: the gate is open iff the time of day lies in [02:00, 05:00)
\* or [08:30, 11:30); closed at exactly 05:00 and at exactly 11:30.
C5_GateHalfOpen ==
    /\ GateEvaluated => (GatePassed <=> InHalfOpenWindows(now1))
    /\ pc = "cycle" => InHalfOpenWindows(NowEastern(clock))

\* C5 amended: the gate is open iff the time of day lies in [02:00, 05:00] or
\* [08:30, 11:30], both ends included: open at exactly 05:00 and 11:30.
C5_GateClosedWindows ==
    /\ GateEvaluated => (GatePassed <=> InClosedWindows(now1))
    /\ pc = "cycle" => InClosedWindows(NowEastern(clock))

\* The gate passed on a reading of exactly 05:00 or exactly 11:30.
C5_Witness == GatePassed /\ now1 \in {5 * 60, 11 * 60 + 30}

\* C6: for the same instant, the gate of process_signals (on US/Eastern time)
\* and the gate inside generate_signal (on datetime.now()) give the same
\* answer, whatever the host's time zone offset.
C6_SameGateAsEastern ==
    GateEvaluated =>
        (GatePassed <=> is_in_kill_zone(NowEastern(now1 + MinutesPerDay - tz)))

\* The series fails validation: a missing OHLC column, a missing OHLC value,
\* a non-datetime index, or fewer than 50 candles.
FailsValidation(d) ==
    /\ d.isDataFrame
    /\ d.len > 0
    /\ (~d.hasColumns \/ d.hasNaN \/ ~d.isDatetimeIndex \/ d.len < 50)

\* C7 as stated: a series that fails validation gives an error outcome the
\* caller can tell apart from None.
C7_DataErrorDistinctFromNone ==
    (Returned /\ FailsValidation(df)) => res.outcome # "none"

\* C7 amended: a series that fails validation gives None, the outcome of a
\* valid series without a pattern; the error is only logged.
C7_DataErrorReturnsNone ==
    (Returned /\ FailsValidation(df)) => (res.outcome = "none" /\ res.signal = NoSignal)

\* A rejected series and a short series, each evaluated inside a kill zone.
C7_Witness ==
    /\ GatePassed
    /\ FailsValidation(df)
    /\ res.outcome = "none"
    /\ \/ (res.stage = "validate" /\ res.log = "generating")
       \/ (df.len = 50 - 1 /\ res.stage = "threshold")

\* C8: if any one of the five detectors raises during analyze_candles, all
\* five pattern lists of the cycle are empty and no signal is returned.
C8_DetectorFailureDiscardsAll ==
    (GatePassed /\ ValidSeries(df) /\ df.failing # {}) =>
        /\ \A k \in DetectorNames : res.ict[k] = << >>
        /\ res.outcome = "none"

\* The last detector raised after the others had returned events.
C8_Witness ==
    /\ GatePassed /\ ValidSeries(df)
    /\ df.failing = {"choch"}
    /\ df.patterns.fvg # << >> /\ df.patterns.order_blocks # << >> /\ df.patterns.bos # << >>
    /\ res.ict = NoPatterns
    /\ res.outcome = "none"

\* C9: generate_signal never lets an exception reach its caller: its outcome
\* is a signal record or None for every input.
C9_NoExceptionEscapes ==
    Returned => (res.outcome \in {"signal", "none"} /\ (res.outcome = "none" => res.signal = NoSignal))

\* An argument that is no DataFrame was turned into None.
C9_Witness == Returned /\ ~df.isDataFrame /\ res.outcome = "none" /\ res.log = "generating"

\* C10: an event contributes a tag and a vote iff it is recent relative to
\* the last candle: FVG (by end_time) and order blocks iff at most 4 hours
\* old, BOS and CHoCH iff at most 2 hours old; liquidity pools never.
C10_RecencyDecidesVotes ==
    Counted =>
        LET ict == res.ict
            t == res.tally
            rec == RecentByRule(df, ict)
            of(k, ty) == Cardinality({e \in rec : e.kind = k /\ e.type = ty})
        IN  /\ \A ty \in Types :
                /\ NumTagged(t.confluences, <<"FVG", ty>>) = of("fvg", ty)
                /\ NumTagged(t.confluences, <<"OB", ty>>) = of("order_blocks", ty)
                /\ NumTagged(t.confluences, <<"BOS", ty>>) = of("bos", ty)
                /\ NumTagged(t.confluences, <<"CHoCH", ty>>) = of("choch", ty)
            /\ Len(t.confluences) = Cardinality(rec)
            /\ t.bullish_count = Cardinality({e \in rec : e.type = "bullish"})
            /\ t.bearish_count = Cardinality({e \in rec : e.type = "bearish"})

\* An FVG exactly 4 hours old is counted, a BOS 2 hours and a minute old is
\* not, and a pool is present.
C10_Witness ==
    /\ Counted
    /\ res.ict.liquidity_pools # << >>
    /\ \E e \in Range(res.ict.fvg) : df.last - e.time = 4 * 60
    /\ \E e \in Range(res.ict.bos) : df.last - e.time = 2 * 60 + 1
    /\ Len(res.tally.confluences) = 1

-----------------------------------------------------------------------------
(* calculate_risk_params called on its own *)

\* Bounds on the inputs: entries -MaxEntry .. MaxEntry, ATR 0 .. MaxAtr or NaN.
MaxEntry == 5
MaxAtr == 6

\* The other variables while a function is exercised on its own.
Parked ==
    /\ clock = 0 /\ tz = 0 /\ df = NoFrame /\ now1 = 0 /\ now2 = 0 /\ res = NoResult

RiskArgs ==
    [direction : {"BUY", "SELL"},
     entry : (0 - MaxEntry)..MaxEntry,
     atr : {Num(a) : a \in 0..MaxAtr} \cup {NaN}]

InitRisk ==
    /\ Parked
    /\ pc = "risk"
    /\ arg \in RiskArgs
    /\ out = NoArg

\* stop_loss, take_profit = calculate_risk_params(df, direction, entry)
ApplyRisk ==
    /\ pc = "risk"
    /\ out' = calculate_risk_params(
                Frame(TRUE, DayOfCandles, TRUE, FALSE, TRUE, Num(arg.entry), arg.atr, {}, {}),
                arg.direction, Num(arg.entry))
    /\ pc' = "risk_done"
    /\ UNCHANGED <<clock, tz, df, now1, now2, res, arg>>

SpecRisk == InitRisk /\ [][ApplyRisk]_vars

\* C11: for every entry and every positive ATR, stop_loss < entry <
\* take_profit for BUY and take_profit < entry < stop_loss for SELL, and the
\* distance to take_profit is exactly 1.5 times the distance to stop_loss.
C11_RiskLevelsOrdered ==
    (pc = "risk_done" /\ ~IsNaN(arg.atr) /\ arg.atr.v > 0) =>
        LET e == arg.entry
            sl == out.stop_loss.v
            tp == out.take_profit.v
        IN  /\ ~IsNaN(out.stop_loss) /\ ~IsNaN(out.take_profit)
            /\ arg.direction = "BUY" => (sl < e /\ e < tp /\ 2 * (tp - e) = 3 * (e - sl))
            /\ arg.direction = "SELL" => (tp < e /\ e < sl /\ 2 * (e - tp) = 3 * (sl - e))

\* A SELL with a positive ATR and a negative entry has been computed.
C11_Witness ==
    /\ pc = "risk_done"
    /\ arg.direction = "SELL" /\ arg.entry < 0 /\ ~IsNaN(arg.atr) /\ arg.atr.v = 1
    /\ out.stop_loss.v = arg.entry + 2
    /\ out.take_profit.v = arg.entry - 3

-----------------------------------------------------------------------------
(* Properties of the emitted record *)

\* C12: generate_signal never emits a signal when the ATR at the last candle
\* is 0: no emitted signal has stop_loss equal to entry.
C12_NoZeroWidthStop ==
    res.outcome = "signal" =>
        (df.atr # Num(0) /\ res.signal.stop_loss # res.signal.entry)

-----------------------------------------------------------------------------
(* The setup string: " + ".join(set(confluences)) *)

\* The eight tags the counting loops can append.
AllTags ==
    <<<<"FVG", "bullish">>, <<"FVG", "bearish">>, <<"OB", "bullish">>, <<"OB", "bearish">>,
      <<"BOS", "bullish">>, <<"BOS", "bearish">>, <<"CHoCH", "bullish">>, <<"CHoCH", "bearish">>>>

TagRank(tag) == CHOOSE i \in 1..Len(AllTags) : AllTags[i] = tag

\* A set of str iterates in the order of the hashes of its members, and str
\* hashes are salted per interpreter process (PYTHONHASHSEED): the order is
\* fixed within a process and differs between processes.  Two salts stand
\* for the processes: one iterates by rising rank, the other by falling rank.
HashSeeds == {0, 1}

RECURSIVE SetOrder(_, _)
SetOrder(S, seed) ==
    IF S = {} THEN << >>
    ELSE LET first == CHOOSE x \in S : \A y \in S :
                          IF seed = 0 THEN TagRank(x) <= TagRank(y) ELSE TagRank(x) >= TagRank(y)
         IN  <<first>> \o SetOrder(S \ {first}, seed)

\* The text of the setup field: the tags joined in iteration order.
SetupString(tags, seed) == SetOrder(Range(tags), seed)

\* The value generate_signal returns in a process with the given hash salt.
ReturnedValue(r, seed) ==
    IF r.outcome = "signal"
    THEN [r.signal EXCEPT !.setup = SetupString(r.tally.confluences, seed)]
    ELSE NoSignal

\* Two evaluations of one series at one clock reading, each in a process of
\* its own salt.
TwiceArgs ==
    [d : {f \in RichFrames : f.atr = Num(2 * 100)},
     now : {LondonStart, NewYorkEnd, 14 * 60},
     seed1 : HashSeeds,
     seed2 : HashSeeds]

InitTwice ==
    /\ Parked
    /\ pc = "twice"
    /\ arg \in TwiceArgs
    /\ out = NoArg

EvaluateTwice ==
    /\ pc = "twice"
    /\ out' = [first |-> ReturnedValue(generate_signal(Asset, arg.d, arg.now, arg.now), arg.seed1),
               second |-> ReturnedValue(generate_signal(Asset, arg.d, arg.now, arg.now), arg.seed2)]
    /\ pc' = "twice_done"
    /\ UNCHANGED <<clock, tz, df, now1, now2, res, arg>>

SpecTwice == InitTwice /\ [][EvaluateTwice]_vars

\* C13: two evaluations of the same asset and series at the same evaluation
\* time return identical results in every field, the order of the tags in
\* the setup string included.
C13_SameResultTwice ==
    pc = "twice_done" => out.first = out.second

\* C14: in every emitted signal the setup field holds each distinct tag
\* exactly once, while the threshold, the direction vote and the denominator
\* of the confidence use the raw number of surviving events, so that several
\* events of one kind and direction each count.
C14_SetupDistinctCountsRaw ==
    (pc = "twice_done" /\ is_in_kill_zone(arg.now)) =>
        LET rec == RecentByRule(arg.d, arg.d.patterns)
            tags == {<<CASE e.kind = "fvg" -> "FVG" [] e.kind = "order_blocks" -> "OB"
                         [] e.kind = "bos" -> "BOS" [] OTHER -> "CHoCH", e.type>> : e \in rec}
            bull == Cardinality({e \in rec : e.type = "bullish"})
            bear == Cardinality({e \in rec : e.type = "bearish"})
            sig == out.first
        IN  /\ sig # NoSignal <=> Cardinality(rec) >= 3
            /\ sig # NoSignal =>
                /\ \A tag \in tags :
                       Cardinality({i \in 1..Len(sig.setup) : sig.setup[i] = tag}) = 1
                /\ \A i \in 1..Len(sig.setup) : sig.setup[i] \in tags
                /\ sig.confidence = <<Max(bull, bear), Cardinality(rec)>>
                /\ sig.direction = (IF bull > bear THEN "BUY" ELSE "SELL")

\* Three bullish FVGs alone: one distinct tag, three counted events, a signal.
C14_Witness ==
    /\ pc = "twice_done"
    /\ out.first # NoSignal
    /\ out.first.setup = <<<<"FVG", "bullish">>>>
    /\ out.first.confidence = <<3, 3>>
    /\ out.first.direction = "BUY"

(***************************************************************************)
(* Candle series.  A series is a sequence of candles, df.iloc[i] is        *)
(* At(s, i), and the timestamp of candle i is its index i.  A mean is the  *)
(* pair <<sum, count>>, so that no division is rounded.                    *)
(***************************************************************************)
Candle(o, h, l, c, v) == [Open |-> o, High |-> h, Low |-> l, Close |-> c, Volume |-> v]
At(s, i) == s[i + 1]
Indices(s) == 0..(Len(s) - 1)
Ratio(sum, n) == Num(<<sum, n>>)

\* The OHLC invariant of the claims: high >= low on each candle.
HighNotBelowLow(s) == \A i \in Indices(s) : At(s, i).High >= At(s, i).Low

\* ranges.max(axis=1): the NaN of the shifted close is skipped at row 0.
TrueRange(s, i) ==
    LET c == At(s, i)
    IN  IF i = 0 THEN c.High - c.Low
        ELSE LET prev == At(s, i - 1).Close
             IN  Max(c.High - c.Low, Max(Abs(c.High - prev), Abs(c.Low - prev)))

RECURSIVE SumOver(_, _, _)
SumOver(x, lo, hi) == IF hi < lo THEN 0 ELSE x[hi] + SumOver(x, lo, hi - 1)

\* rolling(p, min_periods=1).mean(): defined from the first row on.
RollingMean_minperiods1(x, p) ==
    [i \in DOMAIN x |-> Ratio(SumOver(x, Max(0, i - p + 1), i), Min(p, i + 1))]

\* rolling(p).mean(): NaN until p rows are in the window.
RollingMean(x, p) ==
    [i \in DOMAIN x |-> IF i < p - 1 THEN NaN ELSE Ratio(SumOver(x, i - p + 1, i), p)]

calculate_atr(s, p) == RollingMean([i \in Indices(s) |-> TrueRange(s, i)], p)

(***************************************************************************)
(* calculate_atr applied to every short series and period.                 *)
(***************************************************************************)
MaxSeriesLen == 3
AtrPrices == {0, 1}
AtrCandles == {Candle(c, h, l, c, 0) : h \in AtrPrices, l \in AtrPrices, c \in AtrPrices}
AtrSeries == UNION {[1..n -> AtrCandles] : n \in 1..MaxSeriesLen}
AtrArgs == [s : AtrSeries, p : 1..(MaxSeriesLen + 1)]

InitAtr ==
    /\ Parked
    /\ pc = "atr"
    /\ arg \in AtrArgs
    /\ out = NoArg

ApplyAtr ==
    /\ pc = "atr"
    /\ out' = calculate_atr(arg.s, arg.p)
    /\ pc' = "atr_done"
    /\ UNCHANGED <<clock, tz, df, now1, now2, res, arg>>

SpecAtr == InitAtr /\ [][ApplyAtr]_vars

\* C17: on a series with high >= low on each candle, calculate_atr is
\* undefined at exactly the indices i < p - 1 and is defined and >= 0 at every
\* index i >= p - 1.
C17_AtrDefinedFromPeriod ==
    (pc = "atr_done" /\ HighNotBelowLow(arg.s)) =>
        \A i \in Indices(arg.s) :
            /\ IsNaN(out[i]) <=> i < arg.p - 1
            /\ i >= arg.p - 1 => (~IsNaN(out[i]) /\ out[i].v[1] >= 0)

\* Three candles, period 2: undefined at 0, defined at 1 and 2, and positive.
C17_Witness ==
    /\ pc = "atr_done"
    /\ HighNotBelowLow(arg.s)
    /\ Len(arg.s) = 3
    /\ arg.p = 2
    /\ IsNaN(out[0])
    /\ ~IsNaN(out[1])
    /\ out[2].v[1] > 0

(***************************************************************************)
(* detect_fvg on candles.                                                  *)
(***************************************************************************)
FvgFirstIndex == 13

\* The comparison with >= in place of >.
ExceedsHalfAtr_nonstrict(gap, atr) == ~IsNaN(atr) /\ 2 * atr.v[2] * gap >= atr.v[1]

\* gap_size > 0.5 * atr, a comparison with NaN being false.
ExceedsHalfAtr(gap, atr) == ~IsNaN(atr) /\ 2 * atr.v[2] * gap > atr.v[1]

BullishFvg(c1, c2, c3, atr) ==
    /\ c1.High < c3.Low
    /\ c2.Low > c1.High
    /\ c2.High < c3.Low
    /\ ExceedsHalfAtr(c3.Low - c1.High, atr)

\* The bearish test written with the comparisons of the bullish one.
BearishFvg_copied(c1, c2, c3, atr) == BullishFvg(c1, c2, c3, atr)

BearishFvg(c1, c2, c3, atr) ==
    /\ c1.Low > c3.High
    /\ c2.High < c1.Low
    /\ c2.Low > c3.High
    /\ ExceedsHalfAtr(c1.Low - c3.High, atr)

\* One pass of the loop body: the events appended at index i.
FvgAt(s, i) ==
    IF i < FvgFirstIndex THEN << >>
    ELSE LET c1 == At(s, i)
             c2 == At(s, i + 1)
             c3 == At(s, i + 2)
             atr == calculate_atr(s, AtrPeriod)[i]
         IN  (IF BullishFvg(c1, c2, c3, atr)
              THEN <<[type |-> "bullish", start_time |-> i, end_time |-> i + 2,
                      low |-> c3.Low, high |-> c1.High,
                      gap_size |-> c3.Low - c1.High]>>
              ELSE << >>)
             \o
             (IF BearishFvg(c1, c2, c3, atr)
              THEN <<[type |-> "bearish", start_time |-> i, end_time |-> i + 2,
                      low |-> c3.High, high |-> c1.Low,
                      gap_size |-> c1.Low - c3.High]>>
              ELSE << >>)

RECURSIVE FvgBelow(_, _)
FvgBelow(s, n) == IF n <= 0 THEN << >> ELSE FvgBelow(s, n - 1) \o FvgAt(s, n - 1)

\* for i in range(len(df) - 2)
detect_fvg_on(s) == FvgBelow(s, Len(s) - 2)

\* Thirteen equal candles, then four free ones: the windows at 13 and 14 are
\* the ones with an ATR.  After the quiet base every gap passes the ATR
\* filter; after the wide one a gap of 2 does not.
FvgPrices == {0, 1, 2}
FvgCandles == {Candle(l, h, l, l, 0) : h \in FvgPrices, l \in FvgPrices}
FvgBases == {Candle(0, 0, 0, 0, 0), Candle(0, 4, 0, 4, 0)}
FvgSeries ==
    {[i \in 1..(FvgFirstIndex + 4) |-> IF i <= FvgFirstIndex THEN b ELSE w[i - FvgFirstIndex]] :
        b \in FvgBases, w \in [1..4 -> FvgCandles]}

InitFvg ==
    /\ Parked
    /\ pc = "fvg"
    /\ arg \in FvgSeries
    /\ out = NoArg

ApplyFvg ==
    /\ pc = "fvg"
    /\ out' = detect_fvg_on(arg)
    /\ pc' = "fvg_done"
    /\ UNCHANGED <<clock, tz, df, now1, now2, res, arg>>

SpecFvg == InitFvg /\ [][ApplyFvg]_vars

\* C16: on a series with high >= low on each candle, detect_fvg never emits
\* both a bullish and a bearish FVG with the same start_time and end_time.
C16_FvgOneDirectionPerWindow ==
    (pc = "fvg_done" /\ HighNotBelowLow(arg)) =>
        \A j \in 1..Len(out), k \in 1..Len(out) :
            (out[j].type = "bullish" /\ out[k].type = "bearish") =>
                ~(out[j].start_time = out[k].start_time /\ out[j].end_time = out[k].end_time)

\* A well-formed series with a bullish FVG in the window at 13 and nothing else.
C16_Witness ==
    /\ pc = "fvg_done"
    /\ HighNotBelowLow(arg)
    /\ Len(out) = 1
    /\ out[1].type = "bullish"
    /\ out[1].start_time = FvgFirstIndex

\* C19: every FVG event has low < high, high - low = gap_size, and start_time
\* and end_time the timestamps of candles i and i + 2.
C19_FvgBoundsOrdered ==
    pc = "fvg_done" =>
        \A j \in 1..Len(out) :
            /\ out[j].low < out[j].high
            /\ out[j].high - out[j].low = out[j].gap_size
            /\ out[j].end_time = out[j].start_time + 2

(***************************************************************************)
(* detect_order_blocks and detect_choch on candles.                        *)
(***************************************************************************)
VolumeWindow == 20
ChochLookback == 5

\* if ...: append(first)  if ...: append(second)
IfElif_twoifs(c1, e1, c2, e2) ==
    (IF c1 THEN <<e1>> ELSE << >>) \o (IF c2 THEN <<e2>> ELSE << >>)

\* if ...: append(first)  elif ...: append(second)
IfElif(c1, e1, c2, e2) == IF c1 THEN <<e1>> ELSE IF c2 THEN <<e2>> ELSE << >>

\* current_candle.get('Volume', 0)
CurrentVolume(s, i, hasVolume) == IF hasVolume THEN At(s, i).Volume ELSE 0

\* df['Volume'].rolling(20).mean().iloc[i] if 'Volume' in df.columns else 0
AvgVolume(s, i, hasVolume) ==
    IF hasVolume
    THEN RollingMean([k \in Indices(s) |-> At(s, k).Volume], VolumeWindow)[i]
    ELSE Ratio(0, 1)

\* current_volume > avg_volume * 1.5, a comparison with NaN being false.
VolumeConfirms(cv, avg) == ~IsNaN(avg) /\ 2 * avg.v[2] * cv > 3 * avg.v[1]

\* current_volume / avg_volume if avg_volume > 0 else 1
ObStrength(cv, avg) ==
    IF ~IsNaN(avg) /\ avg.v[1] > 0 THEN <<cv * avg.v[2], avg.v[1]>> ELSE <<1, 1>>

\* Candle direction, momentum and price acceptance, without the volume test.
BullishObShape(prev, cur, next) ==
    /\ prev.Close < prev.Open
    /\ cur.Close > cur.Open
    /\ cur.Close > prev.High
    /\ next.Low > cur.Low

BearishObShape(prev, cur, next) ==
    /\ prev.Close > prev.Open
    /\ cur.Close < cur.Open
    /\ cur.Close < prev.Low
    /\ next.High < cur.High

ObEvent(type, prev, i, cv, avg) ==
    [type |-> type, time |-> i - 1, open |-> prev.Open, close |-> prev.Close,
     high |-> prev.High, low |-> prev.Low, strength |-> ObStrength(cv, avg)]

ObAt(s, i, hasVolume) ==
    LET prev == At(s, i - 1)
        cur == At(s, i)
        next == At(s, i + 1)
        cv == CurrentVolume(s, i, hasVolume)
        avg == AvgVolume(s, i, hasVolume)
    IN  IfElif(BullishObShape(prev, cur, next) /\ VolumeConfirms(cv, avg),
               ObEvent("bullish", prev, i, cv, avg),
               BearishObShape(prev, cur, next) /\ VolumeConfirms(cv, avg),
               ObEvent("bearish", prev, i, cv, avg))

RECURSIVE ObBelow(_, _, _)
ObBelow(s, n, hasVolume) ==
    IF n <= 1 THEN << >> ELSE ObBelow(s, n - 1, hasVolume) \o ObAt(s, n - 1, hasVolume)

\* for i in range(1, len(df) - 1)
detect_order_blocks_on(s, hasVolume) == ObBelow(s, Len(s) - 1, hasVolume)

SetMax(S) == CHOOSE x \in S : \A y \in S : y <= x
SetMin(S) == CHOOSE x \in S : \A y \in S : x <= y

\* df.iloc[lo:hi]["High"].max() and ["Low"].min()
SwingHigh(s, lo, hi) == SetMax({At(s, k).High : k \in lo..(hi - 1)})
SwingLow(s, lo, hi) == SetMin({At(s, k).Low : k \in lo..(hi - 1)})

\* break > 0.3 * atr.iloc[i], a comparison with NaN being false.
SignificantBreak(break, atr) == ~IsNaN(atr) /\ 10 * atr.v[2] * break > 3 * atr.v[1]

BullishChoch(s, i) ==
    /\ SwingLow(s, i - ChochLookback, i) < SwingLow(s, i - 2 * ChochLookback, i - ChochLookback)
    /\ At(s, i).Close > SwingHigh(s, i - ChochLookback, i)
    /\ SignificantBreak(At(s, i).Close - SwingHigh(s, i - ChochLookback, i),
                        calculate_atr(s, AtrPeriod)[i])

BearishChoch(s, i) ==
    /\ SwingHigh(s, i - ChochLookback, i) > SwingHigh(s, i - 2 * ChochLookback, i - ChochLookback)
    /\ At(s, i).Close < SwingLow(s, i - ChochLookback, i)
    /\ SignificantBreak(SwingLow(s, i - ChochLookback, i) - At(s, i).Close,
                        calculate_atr(s, AtrPeriod)[i])

\* strength is break / atr, kept as the pair <<break * n, sum>>.
ChochEvent(type, i, level, break, atr) ==
    [type |-> type, time |-> i, break_level |-> level,
     strength |-> <<break * atr.v[2], atr.v[1]>>]

ChochAt(s, i) ==
    LET high2 == SwingHigh(s, i - ChochLookback, i)
        low2 == SwingLow(s, i - ChochLookback, i)
        atr == calculate_atr(s, AtrPeriod)[i]
    IN  IfElif(BullishChoch(s, i),
               ChochEvent("bullish", i, high2, At(s, i).Close - high2, atr),
               BearishChoch(s, i),
               ChochEvent("bearish", i, low2, low2 - At(s, i).Close, atr))

RECURSIVE ChochBelow(_, _)
ChochBelow(s, n) ==
    IF n <= 2 * ChochLookback THEN << >> ELSE ChochBelow(s, n - 1) \o ChochAt(s, n - 1)

\* for i in range(lookback * 2, len(df))
detect_choch_on(s) == ChochBelow(s, Len(s))

(***************************************************************************)
(* The two if/elif detectors applied to candle series.                     *)
(***************************************************************************)
\* Order blocks: a run of equal candles of volume 1 (none, or 18 so that
\* index 19 has a full volume window), then three free candles without wicks.
ObPrices == {0, 1, 2}
ObVolumes == {1, 2}
ObCandles ==
    {Candle(o, Max(o, c), Min(o, c), c, v) : o \in ObPrices, c \in ObPrices, v \in ObVolumes}
ObPrefixes == {0, VolumeWindow - 2}
ObSeries ==
    {[i \in 1..(n + 3) |-> IF i <= n THEN Candle(1, 1, 1, 1, 1) ELSE w[i - n]] :
        n \in ObPrefixes, w \in [1..3 -> ObCandles]}

\* CHoCH: thirteen equal candles, then two free ones; the base is flat, or has
\* its high below its low, which no check between the caller and the detector
\* excludes.
ChochPrices == 0..4
ChochCandles ==
    {Candle(c, h, l, c, 0) : h \in ChochPrices, l \in ChochPrices, c \in ChochPrices}
ChochBases == {Candle(2, 2, 2, 2, 0), Candle(2, 0, 4, 2, 0)}
ChochSeries ==
    {[i \in 1..(AtrPeriod + 1) |-> IF i < AtrPeriod THEN b ELSE w[i - AtrPeriod + 1]] :
        b \in ChochBases, w \in [1..2 -> ChochCandles]}

BlocksArgs ==
    [fn : {"order_blocks"}, s : ObSeries, hasVolume : BOOLEAN]
    \cup [fn : {"choch"}, s : ChochSeries]

InitBlocks ==
    /\ Parked
    /\ pc = "blocks"
    /\ arg \in BlocksArgs
    /\ out = NoArg

ApplyOrderBlocks ==
    /\ pc = "blocks"
    /\ arg.fn = "order_blocks"
    /\ out' = detect_order_blocks_on(arg.s, arg.hasVolume)
    /\ pc' = "ob_done"
    /\ UNCHANGED <<clock, tz, df, now1, now2, res, arg>>

ApplyChoch ==
    /\ pc = "blocks"
    /\ arg.fn = "choch"
    /\ out' = detect_choch_on(arg.s)
    /\ pc' = "choch_done"
    /\ UNCHANGED <<clock, tz, df, now1, now2, res, arg>>

NextBlocks == ApplyOrderBlocks \/ ApplyChoch
SpecBlocks == InitBlocks /\ [][NextBlocks]_vars

\* The events stamped for loop index i: order blocks carry the time of
\* candle i - 1, CHoCH events the time of candle i.
EventsAt(i) ==
    {j \in 1..Len(out) : out[j].time = (IF pc = "ob_done" THEN i - 1 ELSE i)}

\* C15: detect_order_blocks and detect_choch emit at most one event per index
\* i, and where both the bullish and the bearish condition hold at an index
\* only the bullish event is emitted.
C15_OneEventPerIndex ==
    /\ pc = "ob_done" =>
           \A i \in 1..(Len(arg.s) - 2) :
               /\ Cardinality(EventsAt(i)) <= 1
               /\ (/\ BullishObShape(At(arg.s, i - 1), At(arg.s, i), At(arg.s, i + 1))
                   /\ BearishObShape(At(arg.s, i - 1), At(arg.s, i), At(arg.s, i + 1))
                   /\ EventsAt(i) # {})
                      => \A j \in EventsAt(i) : out[j].type = "bullish"
    /\ pc = "choch_done" =>
           \A i \in (2 * ChochLookback)..(Len(arg.s) - 1) :
               /\ Cardinality(EventsAt(i)) <= 1
               /\ (BullishChoch(arg.s, i) /\ BearishChoch(arg.s, i))
                      => \E j \in EventsAt(i) : out[j].type = "bullish"

\* A series on which both CHoCH conditions hold at the last index, and the
\* one event emitted there is the bullish one.
C15_Witness ==
    /\ pc = "choch_done"
    /\ BullishChoch(arg.s, Len(arg.s) - 1)
    /\ BearishChoch(arg.s, Len(arg.s) - 1)
    /\ Len(out) = 1
    /\ out[1].type = "bullish"
    /\ out[1].time = Len(arg.s) - 1

\* C18: at an index with fewer than 20 candles of volume history, an index
\* that meets the candle-direction, momentum and price-acceptance conditions
\* yields an order block with strength 1.
C18_ShortHistoryYieldsBlock ==
    pc = "ob_done" =>
        \A i \in 1..(Len(arg.s) - 2) :
            (/\ i < VolumeWindow - 1
             /\ \/ BullishObShape(At(arg.s, i - 1), At(arg.s, i), At(arg.s, i + 1))
                \/ BearishObShape(At(arg.s, i - 1), At(arg.s, i), At(arg.s, i + 1)))
                => \E j \in EventsAt(i) : out[j].strength = <<1, 1>>

(***************************************************************************)
(* SignalManager.is_duplicate_signal: src/main.py.  Entries are in units   *)
(* of 0.00001, the precision generate_signal rounds to; a field of a       *)
(* signal is a number, a text that float() rejects, or missing.            *)
(***************************************************************************)
SignalExpiry == 4 * 60

Number(n) == [kind |-> "number", v |-> n]
Text == [kind |-> "text", v |-> 0]
Missing == [kind |-> "missing", v |-> 0]

\* The outcome of a call: a returned boolean, or an exception that leaves it.
Returns(b) == [raised |-> FALSE, value |-> b]
Escapes == [raised |-> TRUE, value |-> FALSE]

\* abs(old - new) / old < 0.001 for old # 0
WithinTolerance(old, new) ==
    IF old > 0 THEN 1000 * Abs(old - new) < old ELSE TRUE

is_duplicate_signal(stored, new) ==
    \* asset not in self.sent_signals or not self.sent_signals[asset]
    IF stored.state # "signal" THEN Returns(FALSE)
    \* signal_time and now - signal_time > self.signal_expiry
    ELSE IF stored.hasTimestamp /\ stored.age > SignalExpiry THEN Returns(FALSE)
    \* the conjunction is evaluated left to right and stops at the first False
    ELSE IF stored.direction # new.direction THEN Returns(FALSE)
    ELSE IF stored.setup # new.setup THEN Returns(FALSE)
    \* KeyError, ValueError and TypeError are caught
    ELSE IF stored.entry.kind # "number" \/ new.entry.kind # "number" THEN Returns(FALSE)
    \* ZeroDivisionError is not
    ELSE IF stored.entry.v = 0 THEN Escapes
    ELSE Returns(WithinTolerance(stored.entry.v, new.entry.v))

\* What sent_signals holds for the asset: no key, None (after cleanup), or a
\* signal, stamped by add_signal or loaded from the storage file without a
\* timestamp.  Entries stay off the exact 0.1% boundary.
StoredEntries == {Number(0), Number(2000), Text, Missing}
NewEntries == {Number(0), Number(2000), Number(2001), Number(2003), Text}
Ages == {0, SignalExpiry, SignalExpiry + 1}
Setups == {"FVG_bullish + BOS_bullish + OB_bullish", "FVG_bearish + BOS_bearish + OB_bearish"}
StoredSignals ==
    [state : {"signal"}, hasTimestamp : BOOLEAN, age : Ages,
     direction : {"BUY", "SELL"}, setup : Setups, entry : StoredEntries]
    \cup [state : {"absent", "none"}, hasTimestamp : {FALSE}, age : {0},
          direction : {"BUY"}, setup : {""}, entry : {Missing}]
NewSignals == [direction : {"BUY", "SELL"}, setup : Setups, entry : NewEntries]

InitDup ==
    /\ Parked
    /\ pc = "dup"
    /\ arg \in [stored : StoredSignals, new : NewSignals]
    /\ out = NoArg

IsDuplicateSignal ==
    /\ pc = "dup"
    /\ out' = is_duplicate_signal(arg.stored, arg.new)
    /\ pc' = "dup_done"
    /\ UNCHANGED <<clock, tz, df, now1, now2, res, arg>>

SpecDup == InitDup /\ [][IsDuplicateSignal]_vars

\* A signal is stored, not older than 4 hours, with the same direction, the
\* same setup and an entry within 0.1% of the stored one.
SimilarStored(stored, new) ==
    /\ stored.state = "signal"
    /\ stored.hasTimestamp => stored.age <= SignalExpiry
    /\ stored.direction = new.direction
    /\ stored.setup = new.setup
    /\ stored.entry.kind = "number" /\ new.entry.kind = "number"
    /\ stored.entry.v # 0
    /\ WithinTolerance(stored.entry.v, new.entry.v)

\* C20: is_duplicate_signal returns true iff a signal is stored for the
\* asset, is not older than 4 hours and has the same direction, the same
\* setup and an entry within 0.1% of the new one; in every other case,
\* a comparison error included, it returns false.
C20_DuplicateIffSimilar ==
    pc = "dup_done" => out = Returns(SimilarStored(arg.stored, arg.new))

(***************************************************************************)
(* get_historical_data and validate_data: src/market_data.py.  A download  *)
(* is the frame yfinance hands back, described by what validate_data       *)
(* reads, or an exception of the download itself.                          *)
(***************************************************************************)
MAX_RETRIES == 3
MIN_REQUIRED_CANDLES == 50
FfillLimit == 2

\* longestGap: the longest run of missing values; leadingGap: the first row
\* has one, which a forward fill cannot reach.
Downloads ==
    [failed : {FALSE}, empty : BOOLEAN,
     len : {MIN_REQUIRED_CANDLES - 1, MIN_REQUIRED_CANDLES},
     longestGap : {0, FfillLimit, FfillLimit + 1}, leadingGap : BOOLEAN,
     positive : BOOLEAN, ohlc : BOOLEAN, unique : BOOLEAN, future : BOOLEAN]
NoDownload ==
    [failed : {TRUE}, empty : {TRUE}, len : {0}, longestGap : {0}, leadingGap : {FALSE},
     positive : {FALSE}, ohlc : {FALSE}, unique : {FALSE}, future : {FALSE}]
NoData == CHOOSE d \in NoDownload : TRUE
\* TRUE when validate_data returns the frame, FALSE when it raises.
validate_data(d) ==
    ~(\/ d.empty
      \/ d.len < MIN_REQUIRED_CANDLES
      \/ d.longestGap > FfillLimit
      \/ d.leadingGap
      \/ ~d.positive
      \/ ~d.ohlc
      \/ ~d.unique
      \/ d.future)

\* The body of the try block: download, the test for an empty frame, then
\* validate_data; TRUE when it reaches the return.
AttemptSucceeds(d) == ~d.failed /\ ~d.empty /\ validate_data(d)

\* The call frame of get_historical_data: its parameter, the loop variable,
\* the downloads made and the frame of the last one.
FetchFrames == [retries : (0 - 1)..MAX_RETRIES, attempt : {0}, downloads : {0}, data : {NoData}]
FetchResult(kind, d) == [kind |-> kind, data |-> d]

InitFetch ==
    /\ Parked
    /\ pc = "fetch"
    /\ arg \in FetchFrames
    /\ out = NoArg

\* One pass of the loop body.
Attempt ==
    /\ pc = "fetch"
    /\ arg.attempt < arg.retries
    /\ \E d \in Downloads \cup NoDownload :
        /\ d.leadingGap => d.longestGap > 0
        /\ IF AttemptSucceeds(d)
           THEN /\ out' = FetchResult("return", d)
                /\ pc' = "fetch_done"
                /\ arg' = [arg EXCEPT !.downloads = @ + 1, !.data = d]
           ELSE IF arg.attempt < arg.retries - 1
           THEN /\ out' = out
                /\ pc' = pc
                /\ arg' = [arg EXCEPT !.downloads = @ + 1, !.data = d, !.attempt = @ + 1]
           ELSE /\ out' = FetchResult("raise", NoData)
                /\ pc' = "fetch_done"
                /\ arg' = [arg EXCEPT !.downloads = @ + 1, !.data = d]
    /\ UNCHANGED <<clock, tz, df, now1, now2, res>>

\* range(retries) is empty: the function body ends without a return.
LoopSkipped ==
    /\ pc = "fetch"
    /\ arg.attempt >= arg.retries
    /\ out' = FetchResult("none", NoData)
    /\ pc' = "fetch_done"
    /\ UNCHANGED <<clock, tz, df, now1, now2, res, arg>>

NextFetch == Attempt \/ LoopSkipped
SpecFetch == InitFetch /\ [][NextFetch]_vars

\* C21: get_historical_data makes at most `retries` download attempts,
\* returns the result of the first attempt that downloads and validates, and
\* otherwise raises MarketDataError; for every value of `retries` it never
\* returns anything other than a validated DataFrame.
C21_ValidatedOrRaises ==
    /\ pc \in {"fetch", "fetch_done"} => arg.downloads <= Max(arg.retries, 0)
    /\ pc = "fetch_done" =>
        \/ /\ out.kind = "return"
           /\ out.data = arg.data
           /\ validate_data(out.data)
        \/ /\ out.kind = "raise"
           /\ ~AttemptSucceeds(arg.data)

(***************************************************************************)
(* detect_liquidity_pools on candles.                                      *)
(***************************************************************************)
\* value > window.max(): the maximum of an empty slice is NaN and the
\* comparison false.
AboveAll(value, window) == window # {} /\ value > SetMax(window)
BelowAll(value, window) == window # {} /\ value < SetMin(window)

HighsIn(s, lo, hi) == {At(s, k).High : k \in lo..(hi - 1)}
LowsIn(s, lo, hi) == {At(s, k).Low : k \in lo..(hi - 1)}

IsSwingHigh(s, i, lookback) ==
    /\ AboveAll(At(s, i).High, HighsIn(s, i - lookback, i))
    /\ AboveAll(At(s, i).High, HighsIn(s, i + 1, i + lookback + 1))

\* The swing-low test with <= against the candles before.
IsSwingLow_nonstrict(s, i, lookback) ==
    /\ LowsIn(s, i - lookback, i) # {}
    /\ At(s, i).Low <= SetMin(LowsIn(s, i - lookback, i))
    /\ BelowAll(At(s, i).Low, LowsIn(s, i + 1, i + lookback + 1))

IsSwingLow(s, i, lookback) ==
    /\ BelowAll(At(s, i).Low, LowsIn(s, i - lookback, i))
    /\ BelowAll(At(s, i).Low, LowsIn(s, i + 1, i + lookback + 1))

PoolsAt(s, i, lookback) ==
    (IF IsSwingHigh(s, i, lookback)
     THEN <<[type |-> "sell-side", price |-> At(s, i).High, time |-> i]>>
     ELSE << >>)
    \o
    (IF IsSwingLow(s, i, lookback)
     THEN <<[type |-> "buy-side", price |-> At(s, i).Low, time |-> i]>>
     ELSE << >>)

RECURSIVE PoolsBelow(_, _, _)
PoolsBelow(s, n, lookback) ==
    IF n <= lookback THEN << >>
    ELSE PoolsBelow(s, n - 1, lookback) \o PoolsAt(s, n - 1, lookback)

\* for i in range(lookback, len(df) - lookback)
detect_liquidity_pools_on(s, lookback) == PoolsBelow(s, Len(s) - lookback, lookback)

\* The series mirrored top to bottom: prices negated, highs and lows swapped.
Mirror(s) ==
    [i \in DOMAIN s |->
        Candle(0 - s[i].Open, 0 - s[i].Low, 0 - s[i].High, 0 - s[i].Close, s[i].Volume)]

PoolPrices == {0, 1, 2}
PoolLookbacks == {0, 1, 2}
PoolCandles == {Candle(l, h, l, l, 0) : h \in PoolPrices, l \in PoolPrices}
PoolSeries == UNION {[1..n -> PoolCandles] : n \in 1..5}

InitPools ==
    /\ Parked
    /\ pc = "pools"
    /\ arg \in [s : PoolSeries, lookback : PoolLookbacks]
    /\ out = NoArg

ApplyPools ==
    /\ pc = "pools"
    /\ out' = [pools |-> detect_liquidity_pools_on(arg.s, arg.lookback),
               mirrored |-> detect_liquidity_pools_on(Mirror(arg.s), arg.lookback)]
    /\ pc' = "pools_done"
    /\ UNCHANGED <<clock, tz, df, now1, now2, res, arg>>

SpecPools == InitPools /\ [][ApplyPools]_vars

ReportedAt(pools, type, i) == \E j \in 1..Len(pools) : pools[j].type = type /\ pools[j].time = i

\* C22: index i is a sell-side pool of a series iff it is a buy-side pool of
\* the mirrored series, and the other way round; pools are reported only at
\* indices lookback <= i < n - lookback.
C22_PoolsMirror ==
    pc = "pools_done" =>
        /\ \A i \in Indices(arg.s) :
            /\ ReportedAt(out.pools, "sell-side", i) <=> ReportedAt(out.mirrored, "buy-side", i)
            /\ ReportedAt(out.pools, "buy-side", i) <=> ReportedAt(out.mirrored, "sell-side", i)
        /\ \A j \in 1..Len(out.pools) :
            /\ arg.lookback <= out.pools[j].time
            /\ out.pools[j].time < Len(arg.s) - arg.lookback

\* A swing high and a swing low in one series, found swapped in its mirror.
C22_Witness ==
    /\ pc = "pools_done"
    /\ arg.lookback = 1
    /\ ReportedAt(out.pools, "sell-side", 1)
    /\ ReportedAt(out.pools, "buy-side", 3)
    /\ ReportedAt(out.mirrored, "buy-side", 1)
    /\ ReportedAt(out.mirrored, "sell-side", 3)

(***************************************************************************)
(* TradingBot.process_signals over successive polling cycles: src/main.py. *)
(* Here arg is the bot (the clock, the signal manager's store and          *)
(* last_run_time, for one asset) and out is what the notifier was handed:  *)
(* the log of delivered signals and the outcome of the last cycle.         *)
(***************************************************************************)
MaxCycles == 4
MinInterval == 4

\* time.sleep(300), and the longer waits that bring the next cycle to the age
\* limit of a stored signal and just past it.
BotSteps == {5, SignalExpiry, SignalExpiry + 5}

\* What generate_signal can hand to process_signals: two signals that differ
\* by 0.05% in entry only, and one of the other direction and setup.
BotSignals ==
    {[direction |-> "BUY", setup |-> "FVG_bullish + BOS_bullish + OB_bullish", entry |-> Number(2000)],
     [direction |-> "BUY", setup |-> "FVG_bullish + BOS_bullish + OB_bullish", entry |-> Number(2001)],
     [direction |-> "SELL", setup |-> "FVG_bearish + BOS_bearish + OB_bearish", entry |-> Number(2000)]}
NoneGenerated == [direction |-> "", setup |-> "", entry |-> Missing]

\* sent_signals for the asset: no key, None, or the signal with its timestamp.
NotStored ==
    [state |-> "absent", timestamp |-> 0, direction |-> "", setup |-> "", entry |-> Missing]
Stamped(signal, now) ==
    [state |-> "signal", timestamp |-> now, direction |-> signal.direction,
     setup |-> signal.setup, entry |-> signal.entry]

\* The stored signal as is_duplicate_signal reads it at time now.
StoredView(stored, now) ==
    [state |-> stored.state, hasTimestamp |-> stored.state = "signal",
     age |-> now - stored.timestamp, direction |-> stored.direction,
     setup |-> stored.setup, entry |-> stored.entry]

cleanup_expired_signals(stored, now) ==
    IF stored.state = "signal" /\ now - stored.timestamp > SignalExpiry
    THEN [stored EXCEPT !.state = "none"]
    ELSE stored

\* last_run_time for the asset: no key, or the time of the last run.
NeverRun == [known |-> FALSE, at |-> 0]
RunAt(t) == [known |-> TRUE, at |-> t]

\* The return value of should_process_asset, and last_run_time after it.
should_process_asset(last, now) == ~(last.known /\ now - last.at < MinInterval)

\* last_run_time written on every call.
LastRunAfter_always(last, now) == RunAt(now)

LastRunAfter(last, now) == IF should_process_asset(last, now) THEN RunAt(now) ELSE last

\* The store written before the outcome of the send is known.
StoreAfterSend_unconditional(stored, signal, now, delivered) == Stamped(signal, now)

\* notifier.send_signal, then add_signal unless TelegramError was raised.
StoreAfterSend(stored, signal, now, delivered) ==
    IF delivered THEN Stamped(signal, now) ELSE stored

CycleOutcome(result, signal) == [result |-> result, signal |-> signal]

InitBot ==
    /\ Parked
    /\ pc = "bot_idle"
    /\ arg \in [now : {LondonStart, LondonEnd}, cycle : {0},
                sent_signals : {NotStored}, last_run_time : {NeverRun}]
    /\ out = [log |-> << >>, last |-> CycleOutcome("start", NoneGenerated)]

\* process_signals up to its loop: the gate, then cleanup_expired_signals.
\* Outside the kill zones it returns, and run sleeps until the next cycle.
EnterCycle ==
    /\ pc = "bot_idle"
    /\ arg.cycle < MaxCycles
    /\ IF is_in_kill_zone(arg.now % MinutesPerDay)
       THEN /\ arg' = [arg EXCEPT !.sent_signals = cleanup_expired_signals(@, arg.now)]
            /\ pc' = "bot_asset"
       ELSE /\ \E step \in BotSteps :
                arg' = [arg EXCEPT !.now = @ + step, !.cycle = @ + 1]
            /\ pc' = "bot_idle"
    /\ UNCHANGED <<clock, tz, df, now1, now2, res, out>>

\* The loop body for the asset, followed by the sleep of run.  generated is
\* what get_market_data and generate_signal produce; delivered is whether
\* send_signal returns rather than raising TelegramError.
ProcessAsset ==
    /\ pc = "bot_asset"
    /\ \E generated \in BotSignals \cup {NoneGenerated}, delivered \in BOOLEAN, step \in BotSteps :
        LET now == arg.now
            dup == is_duplicate_signal(StoredView(arg.sent_signals, now), generated)
            result ==
                IF ~should_process_asset(arg.last_run_time, now) THEN "skipped"
                ELSE IF generated = NoneGenerated THEN "none"
                ELSE IF dup = Escapes THEN "error"
                ELSE IF dup = Returns(TRUE) THEN "duplicate"
                ELSE IF delivered THEN "sent"
                ELSE "failed"
        IN  /\ result \in {"skipped", "none", "error", "duplicate"} => delivered
            /\ result = "skipped" => generated = NoneGenerated
            /\ arg' = [arg EXCEPT
                   !.last_run_time = LastRunAfter(@, now),
                   !.sent_signals =
                       IF result \in {"sent", "failed"}
                       THEN StoreAfterSend(@, generated, now, delivered)
                       ELSE @,
                   !.now = @ + step,
                   !.cycle = @ + 1]
            /\ out' = [log |-> IF result = "sent"
                               THEN Append(out.log, [signal |-> generated, time |-> now])
                               ELSE out.log,
                       last |-> CycleOutcome(result, generated)]
    /\ pc' = "bot_idle"
    /\ UNCHANGED <<clock, tz, df, now1, now2, res>>

NextBot == EnterCycle \/ ProcessAsset
SpecBot == InitBot /\ [][NextBot]_vars

\* Same direction, same setup string, entries within 0.1%.
SimilarSignals(a, b) ==
    /\ a.direction = b.direction
    /\ a.setup = b.setup
    /\ WithinTolerance(a.entry.v, b.entry.v)

\* C23: across any sequence of polling cycles no two signals of equal
\* direction, equal setup and entries within 0.1% are dispatched for the
\* asset within 4 hours, even with a different signal dispatched in between.
C23_NoRepeatWithinExpiry ==
    pc \in {"bot_idle", "bot_asset"} =>
        \A i \in 1..Len(out.log), j \in 1..Len(out.log) :
            (i < j /\ SimilarSignals(out.log[i].signal, out.log[j].signal))
                => out.log[j].time - out.log[i].time > SignalExpiry

\* C24: process_signals records a signal in sent_signals only after
\* send_signal returned; when the send fails the stored signals are left
\* unchanged, so in the next cycle the same signal is not a duplicate and the
\* asset is due for processing.
C24_StoredOnlyAfterDelivery ==
    /\ [][pc = "bot_asset" =>
             IF out'.last.result = "sent"
             THEN arg'.sent_signals = Stamped(out'.last.signal, arg.now)
             ELSE arg'.sent_signals = arg.sent_signals]_vars
    /\ []((pc = "bot_asset" /\ out.last.result = "failed") =>
             /\ is_duplicate_signal(StoredView(arg.sent_signals, arg.now), out.last.signal)
                    = Returns(FALSE)
             /\ should_process_asset(arg.last_run_time, arg.now))

\* The cycle after a failed send: an earlier, different signal is still the
\* one stored, with the timestamp of its own dispatch.
C24_Witness ==
    /\ pc = "bot_asset"
    /\ out.last.result = "failed"
    /\ Len(out.log) = 1
    /\ arg.sent_signals = Stamped(out.log[1].signal, out.log[1].time)
    /\ ~SimilarSignals(out.log[1].signal, out.last.signal)

(***************************************************************************)
(* should_process_asset called at arbitrary moments.  Here arg is the      *)
(* clock with last_run_time, and out the last call with, per asset, the    *)
(* times of the calls that returned True.                                  *)
(***************************************************************************)
MaxMinutes == 9
ThrottleAssets == {"EUR/USD", "GBP/USD"}
ThrottleSteps == {0, 1, 3, MinInterval}

InitThrottle ==
    /\ Parked
    /\ pc = "throttle"
    /\ arg = [now |-> 0, last_run_time |-> [a \in ThrottleAssets |-> NeverRun]]
    /\ out = [asset |-> "", returned |-> FALSE, granted |-> [a \in ThrottleAssets |-> << >>]]

ShouldProcessAsset(a) ==
    /\ pc = "throttle"
    /\ LET ret == should_process_asset(arg.last_run_time[a], arg.now)
       IN  /\ arg' = [arg EXCEPT !.last_run_time[a] = LastRunAfter(@, arg.now)]
           /\ out' = [asset |-> a, returned |-> ret,
                      granted |-> IF ret
                                  THEN [out.granted EXCEPT ![a] = Append(@, arg.now)]
                                  ELSE out.granted]
    /\ pc' = "throttle_returned"
    /\ UNCHANGED <<clock, tz, df, now1, now2, res>>

\* Time passing between two calls.
Elapse ==
    /\ pc = "throttle_returned"
    /\ \E d \in ThrottleSteps :
        /\ arg.now + d <= MaxMinutes
        /\ arg' = [arg EXCEPT !.now = @ + d]
    /\ pc' = "throttle"
    /\ UNCHANGED <<clock, tz, df, now1, now2, res, out>>

NextThrottle == (\E a \in ThrottleAssets : ShouldProcessAsset(a)) \/ Elapse
SpecThrottle == InitThrottle /\ [][NextThrottle]_vars

\* C26: for every asset, two calls of should_process_asset that return true
\* are at least 4 minutes apart, and a call that returns false leaves
\* last_run_time for that asset unchanged.
C26_GrantsFourMinutesApart ==
    /\ [](pc \in {"throttle", "throttle_returned"} =>
             \A a \in ThrottleAssets :
                 \A i \in 1..Len(out.granted[a]), j \in 1..Len(out.granted[a]) :
                     i < j => out.granted[a][j] - out.granted[a][i] >= 4)
    /\ [][(pc = "throttle" /\ pc' = "throttle_returned" /\ ~out'.returned) =>
             arg'.last_run_time[out'.asset] = arg.last_run_time[out'.asset]]_vars

\* An asset granted at 0 and again at 4, then refused one minute later with
\* last_run_time still at 4.
C26_Witness ==
    /\ pc = "throttle_returned"
    /\ out.asset = "EUR/USD"
    /\ ~out.returned
    /\ out.granted["EUR/USD"] = <<0, 4>>
    /\ arg.now = 5
    /\ arg.last_run_time["EUR/USD"] = RunAt(4)

(***************************************************************************)
(* TradingBot.run and handle_shutdown.  Here arg is the bot's running flag *)
(* with the locals of run, and out the history of the process_signals      *)
(* calls.  The signal handler runs between any two statements of run.      *)
(***************************************************************************)
MaxIterations == 6
MaxConsecutiveErrors == 3

\* consecutive_errors kept across a successful iteration.
ErrorsAfter_noreset(count, outcome) == IF outcome = "ok" THEN count ELSE count + 1

\* consecutive_errors after an iteration: line 289, or line 296.
ErrorsAfter(count, outcome) == IF outcome = "ok" THEN 0 ELSE count + 1

\* The seconds slept after an iteration; none once the limit is reached.
SleepAfter(count, outcome) ==
    IF outcome = "ok" THEN 300
    ELSE IF count >= MaxConsecutiveErrors THEN 0
    ELSE 60 * count

InitRun ==
    /\ Parked
    /\ pc = "run_test"
    /\ arg = [running |-> TRUE, consecutive_errors |-> 0, sleep |-> 0]
    /\ out = [history |-> << >>, selfStopped |-> FALSE, signalledAt |-> "",
              startedStopped |-> 0]

\* while self.running
LoopTest ==
    /\ pc = "run_test"
    /\ pc' = IF arg.running THEN "run_call" ELSE "run_exit"
    /\ UNCHANGED <<clock, tz, df, now1, now2, res, arg, out>>

\* The try statement: process_signals returns or raises, the counter is
\* updated, the limit tested, and the sleep begun.
CallProcessSignals ==
    /\ pc = "run_call"
    /\ Len(out.history) < MaxIterations
    /\ \E outcome \in {"ok", "raise"} :
        LET count == ErrorsAfter(arg.consecutive_errors, outcome)
            stop == outcome = "raise" /\ count >= MaxConsecutiveErrors
        IN  /\ arg' = [running |-> arg.running /\ ~stop,
                       consecutive_errors |-> count,
                       sleep |-> SleepAfter(count, outcome)]
            /\ out' = [out EXCEPT
                   !.history = Append(@, outcome),
                   !.selfStopped = @ \/ stop,
                   !.startedStopped = IF arg.running THEN @ ELSE @ + 1]
            /\ pc' = IF stop THEN "run_test" ELSE "run_sleep"
    /\ UNCHANGED <<clock, tz, df, now1, now2, res>>

\* time.sleep returns.
Wake ==
    /\ pc = "run_sleep"
    /\ pc' = "run_test"
    /\ UNCHANGED <<clock, tz, df, now1, now2, res, arg, out>>

\* SIGINT or SIGTERM: handle_shutdown.
HandleShutdown ==
    /\ pc \in {"run_test", "run_call", "run_sleep"}
    /\ arg.running
    /\ arg' = [arg EXCEPT !.running = FALSE]
    /\ out' = [out EXCEPT !.signalledAt = pc]
    /\ UNCHANGED <<clock, tz, df, now1, now2, res, pc>>

NextRun == LoopTest \/ CallProcessSignals \/ Wake \/ HandleShutdown
SpecRun == InitRun /\ [][NextRun]_vars

RunPositions == {"run_test", "run_call", "run_sleep", "run_exit"}

\* The number of "raise" entries at the end of the history.
RECURSIVE TrailingRaises(_)
TrailingRaises(h) ==
    IF h = << >> \/ h[Len(h)] = "ok" THEN 0 ELSE 1 + TrailingRaises(SubSeq(h, 1, Len(h) - 1))

\* The bot stops itself exactly after three consecutive failures, and the
\* counter is the number of failures since the last success.
StopsAfterThreeInARow ==
    /\ out.selfStopped <=> TrailingRaises(out.history) >= MaxConsecutiveErrors
    /\ arg.consecutive_errors = TrailingRaises(out.history)
    /\ out.selfStopped => ~arg.running
    /\ pc = "run_exit" => ~arg.running

\* C25 as stated: run shuts itself down exactly when process_signals raised
\* in 3 consecutive iterations, a success resets the count, and once running
\* is false no further process_signals call is started.
C25_NoCallOnceStopped ==
    pc \in RunPositions => (StopsAfterThreeInARow /\ out.startedStopped = 0)

\* C25 amended: the same, except that a shutdown signal that arrives after the
\* loop condition was tested and before process_signals is called lets that
\* one call start; no call starts after running was false at the loop test.
C25_NoCallAfterTestSeesStopped ==
    pc \in RunPositions =>
        /\ StopsAfterThreeInARow
        /\ out.startedStopped <= 1
        /\ out.startedStopped = 1 => out.signalledAt = "run_call"
        /\ pc = "run_call" => (arg.running \/ out.signalledAt = "run_call")

\* Two failures, a success, two more failures: still running with the
\* counter at 2.
C25_Witness ==
    /\ pc = "run_test"
    /\ out.history = <<"raise", "raise", "ok", "raise", "raise">>
    /\ arg.running
    /\ arg.consecutive_errors = 2
    /\ ~out.selfStopped

(***************************************************************************)
(* detect_bos on candles, and the strength of BOS and CHoCH events.        *)
(***************************************************************************)
BosLookback == 5

\* current_volume > avg_volume * 1.2, a comparison with NaN being false.
VolumeConfirmsBos(cv, avg) == ~IsNaN(avg) /\ 10 * avg.v[2] * cv > 12 * avg.v[1]

\* df.get('Volume', pd.Series([0] * len(df))) and its rolling(20).mean()
BosVolume(s, i, hasVolume) == IF hasVolume THEN At(s, i).Volume ELSE 0
BosAvgVolume(s, i, hasVolume) ==
    RollingMean([k \in Indices(s) |-> BosVolume(s, k, hasVolume)], VolumeWindow)[i]

\* strength is break / atr, kept as the pair <<break * n, sum>>.
BosEvent(type, i, level, break, atr) ==
    [type |-> type, time |-> i, break_level |-> level,
     strength |-> <<break * atr.v[2], atr.v[1]>>]

BosAt(s, i, hasVolume) ==
    LET prev_high == SwingHigh(s, i - BosLookback, i)
        prev_low == SwingLow(s, i - BosLookback, i)
        confirmed == VolumeConfirmsBos(BosVolume(s, i, hasVolume), BosAvgVolume(s, i, hasVolume))
        atr == calculate_atr(s, AtrPeriod)[i]
    IN  (IF /\ At(s, i).High > prev_high
            /\ confirmed
            /\ ExceedsHalfAtr(At(s, i).High - prev_high, atr)
         THEN <<BosEvent("bullish", i, prev_high, At(s, i).High - prev_high, atr)>>
         ELSE << >>)
        \o
        (IF /\ At(s, i).Low < prev_low
            /\ confirmed
            /\ ExceedsHalfAtr(prev_low - At(s, i).Low, atr)
         THEN <<BosEvent("bearish", i, prev_low, prev_low - At(s, i).Low, atr)>>
         ELSE << >>)

RECURSIVE BosBelow(_, _, _)
BosBelow(s, n, hasVolume) ==
    IF n <= BosLookback THEN << >>
    ELSE BosBelow(s, n - 1, hasVolume) \o BosAt(s, n - 1, hasVolume)

\* for i in range(lookback, len(df))
detect_bos_on(s, hasVolume) == BosBelow(s, Len(s), hasVolume)

\* The OHLC relations validate_data requires of every candle.
OhlcInvariants(s) ==
    \A i \in Indices(s) :
        /\ At(s, i).High >= At(s, i).Low
        /\ At(s, i).High >= At(s, i).Open
        /\ At(s, i).High >= At(s, i).Close
        /\ At(s, i).Low <= At(s, i).Open
        /\ At(s, i).Low <= At(s, i).Close

\* BOS: nineteen equal candles of volume 1, flat or of range 2, then one free
\* candle at index 19, the first with a full volume window.
BosPrices == 0..4
BosCandles ==
    {Candle(c, h, l, c, v) : h \in BosPrices, l \in BosPrices, c \in BosPrices, v \in ObVolumes}
BosBases == {Candle(1, 1, 1, 1, 1), Candle(1, 2, 0, 1, 1)}
BosSeries ==
    {[i \in 1..VolumeWindow |-> IF i < VolumeWindow THEN b ELSE w] :
        b \in BosBases, w \in BosCandles}

\* Candles with high = low whose close is the price of the next one: every
\* true range from index 1 on is 0 while the price steps from 2 to 1, and the
\* last close is above its own high.
DriftingSeries ==
    [i \in 1..(AtrPeriod + 1) |->
        IF i <= 8 THEN Candle(2, 2, 2, 2, 0)
        ELSE IF i = 9 THEN Candle(2, 2, 2, 1, 0)
        ELSE IF i <= AtrPeriod THEN Candle(1, 1, 1, 1, 0)
        ELSE Candle(1, 1, 1, 2, 0)]

BreaksArgs ==
    [fn : {"bos"}, s : BosSeries, hasVolume : BOOLEAN]
    \cup [fn : {"choch"}, s : ChochSeries \cup {DriftingSeries}]

InitBreaks ==
    /\ Parked
    /\ pc = "blocks"
    /\ arg \in BreaksArgs
    /\ out = NoArg

ApplyBos ==
    /\ pc = "blocks"
    /\ arg.fn = "bos"
    /\ out' = detect_bos_on(arg.s, arg.hasVolume)
    /\ pc' = "bos_done"
    /\ UNCHANGED <<clock, tz, df, now1, now2, res, arg>>

NextBreaks == ApplyBos \/ ApplyChoch
SpecBreaks == InitBreaks /\ [][NextBreaks]_vars

\* C27: on a series satisfying the OHLC invariants, every BOS or CHoCH event
\* at index i has ATR[i] defined and strictly positive, and a strength that
\* is a finite number above 0.5 for BOS and above 0.3 for CHoCH.
C27_StrengthAboveThreshold ==
    (pc \in {"bos_done", "choch_done"} /\ arg.fn \in {"bos", "choch"} /\ OhlcInvariants(arg.s)) =>
        \A j \in 1..Len(out) :
            LET atr == calculate_atr(arg.s, AtrPeriod)[out[j].time]
                strength == out[j].strength
            IN  /\ ~IsNaN(atr)
                /\ atr.v[1] > 0
                /\ strength[2] > 0
                /\ IF arg.fn = "bos"
                   THEN 2 * strength[1] > strength[2]
                   ELSE 10 * strength[1] > 3 * strength[2]

\* A bullish BOS on a well-formed series after the candles of range 2.
C27_Witness ==
    /\ pc = "bos_done"
    /\ OhlcInvariants(arg.s)
    /\ At(arg.s, 0).High = 2
    /\ Len(out) = 1
    /\ out[1].type = "bullish"
    /\ out[1].time = VolumeWindow - 1

(***************************************************************************)
(* backtest_signal_logic: generate_signal on every 3-candle slice.  Here   *)
(* arg is the historical series with the loop index, and out the list of   *)
(* signals with the stage at which the last slice was turned down.         *)
(***************************************************************************)
SliceWidth == 3

\* historical_data.iloc[i:i+50]: a slice as long as the detectors require,
\* with the ATR of the series.
SliceAt_wide(d, i) == [d EXCEPT !.len = Min(MinRequiredCandles, d.len - i)]

\* historical_data.iloc[i:i+3]: the columns and the index type of the series,
\* three rows, and the ATR that rolling(14) gives on them.  The patterns are
\* kept, as if the detectors could still report them on the slice.
SliceAt(d, i) ==
    [d EXCEPT !.len = Min(SliceWidth, d.len - i),
              !.atr = IF Min(SliceWidth, d.len - i) < AtrPeriod THEN NaN ELSE @]

\* Historical series: well formed with the strongest set of recent events,
\* of several lengths, and the ones validate_dataframe rejects.
HistoryLens == {0, 2, 3, 5, MinRequiredCandles + 10}
Histories ==
    {Frame(TRUE, n, TRUE, FALSE, TRUE, Num(ClosePrice), Num(2 * 100), StrongEvents, {}) :
        n \in HistoryLens}
    \cup MalformedFrames

InitBacktest ==
    /\ Parked
    /\ pc = "backtest"
    /\ arg \in [d : Histories, i : {0}]
    /\ out = [signals |-> << >>, stage |-> ""]

\* One pass of the loop, at whatever time the clock shows.
BacktestSlice ==
    /\ pc = "backtest"
    /\ arg.i < arg.d.len - 2
    /\ \E now \in TimesOfDay, later \in TimesOfDay :
        LET r == generate_signal("TEST_ASSET", SliceAt(arg.d, arg.i), now, later)
        IN  out' = [signals |-> IF r.outcome = "signal"
                                THEN Append(out.signals, r.signal)
                                ELSE out.signals,
                    stage |-> r.stage]
    /\ arg' = [arg EXCEPT !.i = @ + 1]
    /\ UNCHANGED <<clock, tz, df, now1, now2, res, pc>>

\* return signals
BacktestReturn ==
    /\ pc = "backtest"
    /\ arg.i >= arg.d.len - 2
    /\ pc' = "backtest_done"
    /\ UNCHANGED <<clock, tz, df, now1, now2, res, arg, out>>

NextBacktest == BacktestSlice \/ BacktestReturn
SpecBacktest == InitBacktest /\ [][NextBacktest]_vars

\* C28: backtest_signal_logic returns an empty list for every historical
\* series at every clock time: each slice it passes to generate_signal is
\* below the 50-candle minimum and has an undefined ATR.
C28_BacktestEmpty ==
    pc \in {"backtest", "backtest_done"} =>
        /\ out.signals = << >>
        /\ \A i \in 0..(arg.d.len - 3) :
            /\ SliceAt(arg.d, i).len < MinRequiredCandles
            /\ IsNaN(AtrLast(SliceAt(arg.d, i)))
        /\ out.stage \in {"", "gate", "validate", "price", "atr"}

\* A series of 60 candles gone through, the last slice having passed the
\* gate and validation and been turned down for its ATR.
C28_Witness ==
    /\ pc = "backtest_done"
    /\ arg.d.len = MinRequiredCandles + 10
    /\ arg.i = arg.d.len - 2
    /\ arg.d.patterns = Patterns(StrongEvents)
    /\ out.stage = "atr"
    /\ out.signals = << >>

====
